---------------------------- MODULE Spec2Model ----------------------------
(***************************************************************************)
(* A model of the catalog-spreadsheet validation engine of src/app.py and  *)
(* of the upload handler that drives it.                                   *)
(*                                                                         *)
(* Text is modelled as a sequence of one-character strings, so that        *)
(* str.strip(), str.startswith() and the stringification of a missing cell *)
(* ("nan") are computed rather than assumed.  A missing spreadsheet cell   *)
(* (pandas NaN) is the value NaN, Python's None is the value None; neither *)
(* is a text.                                                              *)
(***************************************************************************)
EXTENDS Integers, Sequences, FiniteSets, TLC

VARIABLES
    pc,     \* position of the engine call under study: "call" ... "return"
    df,     \* the engine's input: a series, a raw grid, or a table
    args,   \* the remaining arguments of the call
    ret,    \* the value returned (or the exception raised) by the call
    fs,     \* the temp folder: path -> the file stored there (or NoFile)
    req     \* the upload requests: request -> its locals

vars == <<pc, df, args, ret, fs, req>>

----------------------------------------------------------------------------
(* Bounds of the model.                                                    *)

\* Largest number of cells of a series handed to column_valid.
MaxSeriesLen == 3

\* Largest number of rows of a raw grid handed to the header locator.
MaxGridRows == 3

\* Largest number of columns of a table handed to the column resolver.
MaxCols == 4

\* Largest number of rows of a table handed to the row filter.
MaxFilterRows == 2

\* Largest number of rows of a table handed to check.
MaxCheckRows == 2

\* Largest number of data rows of a workbook uploaded for a GTIN lookup.
MaxGtinRows == 2

\* Number of upload requests served at the same time.
NumRequests == 2

----------------------------------------------------------------------------
(* Text and cell values.                                                   *)

NaN  == <<"<NaN>">>
None == <<"<None>">>

Whitespace == {" ", "\t"}

Min(S) == CHOOSE x \in S : \A y \in S : x <= y
Max(S) == CHOOSE x \in S : \A y \in S : x >= y

SeqsUpTo(S, n) == UNION {[1..k -> S] : k \in 0..n}

Range(s) == {s[i] : i \in 1..Len(s)}

\* A call either returns a value or raises an exception.
Return(v)   == [exc |-> "", value |-> v, detail |-> <<>>]
Raise(e, d) == [exc |-> e, value |-> None, detail |-> d]

\* The first position at or after i, and the last at or before i, that
\* holds none of chars (Len(s) + 1, and 0, when there is none).
RECURSIVE first_outside(_, _, _)
first_outside(s, chars, i) ==
    IF i > Len(s) \/ s[i] \notin chars THEN i ELSE first_outside(s, chars, i + 1)

RECURSIVE last_outside(_, _, _)
last_outside(s, chars, i) ==
    IF i < 1 \/ s[i] \notin chars THEN i ELSE last_outside(s, chars, i - 1)

\* str.strip(chars): the text without its leading and trailing chars.
strip_chars(s, chars) ==
    SubSeq(s, first_outside(s, chars, 1), last_outside(s, chars, Len(s)))

\* str.strip(): the text without its leading and trailing whitespace.
strip(s) == strip_chars(s, Whitespace)

\* str.startswith()
startswith(s, prefix) ==
    /\ Len(prefix) <= Len(s)
    /\ SubSeq(s, 1, Len(prefix)) = prefix

\* pd.isna()
isna(val) == val \in {NaN, None}

\* str(val) / Series.astype(str): a missing cell becomes the text "nan".
str(val) ==
    IF val = NaN THEN <<"n","a","n">>
    ELSE IF val = None THEN <<"N","o","n","e">>
    ELSE val

\* Series.astype(str).str.strip() on one cell.
astype_str_strip(val) == strip(str(val))

normalize(val) ==
    IF isna(val) THEN None
    ELSE LET s == strip(str(val))
         IN  IF s # <<>> THEN s ELSE None

----------------------------------------------------------------------------
(* Column display/machine labels.                                          *)

DISPLAY_PRODUCT_NAME ==
    <<"P","r","o","d","u","c","t"," ","N","a","m","e">>
DISPLAY_COLOR ==
    <<"C","o","l","o","r">>
DISPLAY_MAIN_IMAGE ==
    <<"M","a","i","n"," ","I","m","a","g","e"," ","U","R","L">>
DISPLAY_SWATCH ==
    <<"S","w","a","t","c","h"," ","I","m","a","g","e"," ","U","R","L">>
DISPLAY_GTIN ==
    <<"S","e","l","l","a","b","l","e"," ","G","T","I","N">>
MACHINE_PRODUCT_NAME ==
    <<"p","r","o","d","u","c","t","N","a","m","e">>
MACHINE_COLOR ==
    <<"c","o","l","o","r">>
MACHINE_MAIN_IMAGE ==
    <<"m","a","i","n","I","m","a","g","e","U","r","l">>
MACHINE_SWATCH ==
    <<"s","w","a","t","c","h","I","m","a","g","e","U","r","l">>
MACHINE_GTIN ==
    <<"s","e","l","l","a","b","l","e","G","t","i","n">>
DOC_PHRASES_IMAGE ==
    <<"U","R","L",","," ","2","5","0","0"," ","c","h","a","r","a","c","t","e","r","s"," ","-"," ","M","a","i","n"," ","i","m","a","g","e"," ","o","f"," ","t","h","e"," ","i","t","e","m">>
DOC_PHRASES_COLOR ==
    <<"A","l","p","h","a","n","u","m","e","r","i","c",","," ","6","0","0"," ","c","h","a","r","a","c","t","e","r","s"," ","-"," ","C","o","l","o","r"," ","r","e","f","e","r","s">>
ADDITIONAL_DISPLAY_PREFIX ==
    <<"A","d","d","i","t","i","o","n","a","l"," ","I","m","a","g","e"," ","U","R","L">>
ADDITIONAL_MACHINE_PREFIX ==
    <<"p","r","o","d","u","c","t","S","e","c","o","n","d","a","r","y","I","m","a","g","e","U","R","L">>

----------------------------------------------------------------------------
(* column_valid                                                            *)

\* A slip in column_valid: the row-count comparison is left out, so a
\* column with some blank rows passes when its non-blank values agree.
column_valid_no_count(series) ==
    LET vals      == [i \in 1..Len(series) |-> normalize(series[i])]
        non_empty == SelectSeq(vals, LAMBDA v : v # None)
    IN  IF Len(non_empty) = 0 THEN TRUE
        ELSE Cardinality({non_empty[i] : i \in 1..Len(non_empty)}) = 1

column_valid(series) ==
    LET vals      == [i \in 1..Len(series) |-> normalize(series[i])]
        non_empty == SelectSeq(vals, LAMBDA v : v # None)
    IN  IF Len(non_empty) = 0 THEN TRUE
        ELSE IF Len(non_empty) # Len(vals) THEN FALSE
        ELSE Cardinality({non_empty[i] : i \in 1..Len(non_empty)}) = 1

\* The cells a series under test is drawn from: missing, empty,
\* whitespace-only, and texts with and without padding.
SeriesCells == {NaN, <<>>, <<" ">>, <<"u">>, <<" ","u"," ">>, <<"v">>}

NoFiles == <<>>
NoRequests == <<>>

InitColumn ==
    /\ pc = "call"
    /\ df \in SeqsUpTo(SeriesCells, MaxSeriesLen)
    /\ args = <<>>
    /\ ret = None
    /\ fs = NoFiles
    /\ req = NoRequests

ColumnValid ==
    /\ pc = "call"
    /\ ret' = column_valid(df)
    /\ pc' = "return"
    /\ UNCHANGED <<df, args, fs, req>>

NextColumn == ColumnValid

SpecColumn == InitColumn /\ [][NextColumn]_vars

\* C1: column_valid returns true iff every cell of the column is blank
\* under normalize, or every cell is non-blank and all normalized values are
\* equal; a column with some but not all rows blank is invalid.
AllBlank(series)    == \A i \in 1..Len(series) : normalize(series[i]) = None
NoneBlank(series)   == \A i \in 1..Len(series) : normalize(series[i]) # None
AllEqual(series)    ==
    \A i, j \in 1..Len(series) : normalize(series[i]) = normalize(series[j])
PartlyBlank(series) == ~AllBlank(series) /\ ~NoneBlank(series)

C1_ColumnValidIff ==
    pc = "return" =>
        /\ ret = (AllBlank(df) \/ (NoneBlank(df) /\ AllEqual(df)))
        /\ (PartlyBlank(df) => ret = FALSE)

\* A column whose non-blank values agree but which is blank on one row has
\* been judged.
C1_Witness ==
    /\ pc = "return"
    /\ Len(df) = 3
    /\ PartlyBlank(df)
    /\ \E i, j \in 1..Len(df) :
          i # j /\ df[i] # df[j] /\ normalize(df[i]) = normalize(df[j])
          /\ normalize(df[i]) # None
    /\ ret = FALSE

----------------------------------------------------------------------------
(* find_header_row_by_labels                                               *)

\* The raw grid as the locator sees it: every cell stringified and trimmed.
astype_str_grid(grid) ==
    [r \in 1..Len(grid) |-> [c \in 1..Len(grid[r]) |-> strip(str(grid[r][c]))]]

\* One "for idx in range(len(tmp))" loop: the first index at or after idx
\* (0-based) whose row holds every label, or -1 when the loop runs out.
RECURSIVE scan_rows(_, _, _)
scan_rows(tmp, labels, idx) ==
    IF idx >= Len(tmp) THEN -1
    ELSE IF labels \subseteq Range(tmp[idx + 1]) THEN idx
    ELSE scan_rows(tmp, labels, idx + 1)

\* A slip in the locator: the fallback label is looked for first.
find_header_row_fallback_first(grid, must_include) ==
    LET tmp    == astype_str_grid(grid)
        second == scan_rows(tmp, {MACHINE_MAIN_IMAGE}, 0)
        first  == scan_rows(tmp, must_include, 0)
    IN  IF second >= 0 THEN Return(second)
        ELSE IF first >= 0 THEN Return(first)
        ELSE Raise("ValueError", must_include)

find_header_row_by_labels(grid, must_include) ==
    LET tmp    == astype_str_grid(grid)
        first  == scan_rows(tmp, must_include, 0)
        second == scan_rows(tmp, {MACHINE_MAIN_IMAGE}, 0)
    IN  IF first >= 0 THEN Return(first)
        ELSE IF second >= 0 THEN Return(second)
        ELSE Raise("ValueError", must_include)

\* The cells and label sets a raw grid under test is drawn from.
GridCells ==
    {NaN, <<" ">> \o DISPLAY_MAIN_IMAGE \o <<" ">>, MACHINE_MAIN_IMAGE,
     DISPLAY_COLOR}
GridRows == GridCells \X GridCells
LabelSets == {{DISPLAY_MAIN_IMAGE}, {DISPLAY_MAIN_IMAGE, DISPLAY_COLOR}}

InitHeader ==
    /\ pc = "call"
    /\ df \in SeqsUpTo(GridRows, MaxGridRows)
    /\ args \in LabelSets
    /\ ret = None
    /\ fs = NoFiles
    /\ req = NoRequests

FindHeaderRow ==
    /\ pc = "call"
    /\ ret' = find_header_row_by_labels(df, args)
    /\ pc' = "return"
    /\ UNCHANGED <<df, args, fs, req>>

NextHeader == FindHeaderRow

SpecHeader == InitHeader /\ [][NextHeader]_vars

\* C8: the header locator returns the smallest row index whose trimmed,
\* stringified cells contain all required labels; failing that the smallest
\* row index containing the fallback label mainImageUrl; failing that it
\* raises the header-not-located error.
RowsHolding(grid, labels) ==
    {i \in 0..(Len(grid) - 1) :
        \A l \in labels : \E c \in 1..Len(grid[i + 1]) :
            strip(str(grid[i + 1][c])) = l}

C8_HeaderLocator ==
    pc = "return" =>
        LET full == RowsHolding(df, args)
            back == RowsHolding(df, {MACHINE_MAIN_IMAGE})
        IN  IF full # {} THEN ret.exc = "" /\ ret.value = Min(full)
            ELSE IF back # {} THEN ret.exc = "" /\ ret.value = Min(back)
            ELSE ret.exc = "ValueError"

\* A grid whose first row holds only the fallback label and whose second
\* row holds the whole required set: the second row is the header.
C8_Witness ==
    /\ pc = "return"
    /\ Len(df) = 2
    /\ RowsHolding(df, args) = {1}
    /\ RowsHolding(df, {MACHINE_MAIN_IMAGE}) = {0}
    /\ ret.value = 1

----------------------------------------------------------------------------
(* resolve_column_names                                                    *)

\* The "for c in df.columns" loop of pick: the first column at or after
\* position i whose identifier starts with the machine label, else None.
RECURSIVE first_startswith(_, _, _)
first_startswith(columns, machine_lbl, i) ==
    IF i > Len(columns) THEN None
    ELSE IF startswith(str(columns[i]), machine_lbl) THEN str(columns[i])
    ELSE first_startswith(columns, machine_lbl, i + 1)

\* A slip in pick: the machine label is tried before the display label.
pick_machine_first(columns, display_lbl, machine_lbl) ==
    IF machine_lbl \in Range(columns) THEN machine_lbl
    ELSE IF display_lbl \in Range(columns) THEN display_lbl
    ELSE first_startswith(columns, machine_lbl, 1)

pick(columns, display_lbl, machine_lbl) ==
    IF display_lbl \in Range(columns) THEN display_lbl
    ELSE IF machine_lbl \in Range(columns) THEN machine_lbl
    ELSE first_startswith(columns, machine_lbl, 1)

resolve_column_names(columns) ==
    LET col_product == pick(columns, DISPLAY_PRODUCT_NAME, MACHINE_PRODUCT_NAME)
        col_color   == pick(columns, DISPLAY_COLOR, MACHINE_COLOR)
        col_main    == pick(columns, DISPLAY_MAIN_IMAGE, MACHINE_MAIN_IMAGE)
        col_swatch  == pick(columns, DISPLAY_SWATCH, MACHINE_SWATCH)
        col_gtin    == pick(columns, DISPLAY_GTIN, MACHINE_GTIN)
        named       == << <<"Product Name", col_product>>, <<"Color", col_color>>,
                          <<"Main Image URL", col_main>> >>
        unresolved  == SelectSeq(named, LAMBDA nv : nv[2] = None)
        missing     == [i \in 1..Len(unresolved) |-> unresolved[i][1]]
    IN  IF missing # <<>>
        THEN Raise("KeyError", [missing |-> missing, available |-> columns])
        ELSE Return([product |-> col_product, color |-> col_color,
                     main |-> col_main, swatch |-> col_swatch,
                     gtin |-> col_gtin])

\* The column identifiers a header under test is drawn from: display and
\* machine labels, and machine labels with a de-duplication suffix.
Suffixed(lbl, d) == lbl \o <<".", d>>
ColumnNames ==
    {DISPLAY_PRODUCT_NAME, MACHINE_PRODUCT_NAME,
     DISPLAY_COLOR, MACHINE_COLOR, Suffixed(MACHINE_COLOR, "1"),
     Suffixed(MACHINE_COLOR, "2"),
     DISPLAY_MAIN_IMAGE, Suffixed(MACHINE_MAIN_IMAGE, "1"),
     DISPLAY_SWATCH, Suffixed(MACHINE_SWATCH, "1"),
     MACHINE_GTIN, <<"o","t","h","e","r">>}

\* A header holds each identifier once (pandas de-duplicates on load).
Headers(n) ==
    UNION {{h \in [1..k -> ColumnNames] :
                \A i, j \in 1..k : i # j => h[i] # h[j]} : k \in 0..n}

InitResolve ==
    /\ pc = "call"
    /\ df \in Headers(MaxCols)
    /\ args = <<>>
    /\ ret = None
    /\ fs = NoFiles
    /\ req = NoRequests

ResolveColumnNames ==
    /\ pc = "call"
    /\ ret' = resolve_column_names(df)
    /\ pc' = "return"
    /\ UNCHANGED <<df, args, fs, req>>

NextResolve == ResolveColumnNames

SpecResolve == InitResolve /\ [][NextResolve]_vars

\* C9: each role resolves to (a) the display label when a column bears it,
\* else (b) the machine label when a column bears it, else (c) the first
\* column in column order starting with the machine label, else absent; the
\* missing-required-column error is raised, naming exactly the unresolved
\* roles, iff product, color or main image is unresolved; an unresolved
\* swatch or GTIN is absent without error.
Resolved(columns, display_lbl, machine_lbl) ==
    LET starts == {i \in 1..Len(columns) : startswith(columns[i], machine_lbl)}
    IN  IF \E i \in 1..Len(columns) : columns[i] = display_lbl THEN display_lbl
        ELSE IF \E i \in 1..Len(columns) : columns[i] = machine_lbl THEN machine_lbl
        ELSE IF starts # {} THEN columns[Min(starts)]
        ELSE None

C9_Resolution ==
    pc = "return" =>
        LET product == Resolved(df, DISPLAY_PRODUCT_NAME, MACHINE_PRODUCT_NAME)
            color   == Resolved(df, DISPLAY_COLOR, MACHINE_COLOR)
            main    == Resolved(df, DISPLAY_MAIN_IMAGE, MACHINE_MAIN_IMAGE)
            swatch  == Resolved(df, DISPLAY_SWATCH, MACHINE_SWATCH)
            gtin    == Resolved(df, DISPLAY_GTIN, MACHINE_GTIN)
            lacking == (IF product = None THEN {"Product Name"} ELSE {})
                       \cup (IF color = None THEN {"Color"} ELSE {})
                       \cup (IF main = None THEN {"Main Image URL"} ELSE {})
        IN  /\ (ret.exc = "KeyError") = (lacking # {})
            /\ ret.exc \in {"", "KeyError"}
            /\ ret.exc = "KeyError" =>
                  /\ Range(ret.detail.missing) = lacking
                  /\ Len(ret.detail.missing) = Cardinality(lacking)
                  /\ ret.detail.available = df
            /\ ret.exc = "" =>
                  ret.value = [product |-> product, color |-> color,
                               main |-> main, swatch |-> swatch, gtin |-> gtin]

\* A header resolved without error in which the color comes from the first
\* of two suffixed machine columns and the swatch and the GTIN are absent.
C9_Witness ==
    /\ pc = "return"
    /\ ret.exc = ""
    /\ ret.value.color = Suffixed(MACHINE_COLOR, "2")
    /\ Suffixed(MACHINE_COLOR, "1") \in Range(df)
    /\ ret.value.swatch = None
    /\ ret.value.gtin = None

----------------------------------------------------------------------------
(* Tables: [columns |-> identifiers in order, rows |-> rows in order], a   *)
(* row being the sequence of its cells in column order.                    *)

ColIdx(columns, c) == Min({i \in 1..Len(columns) : columns[i] = c})

\* df[col].tolist()
Column(table, c) ==
    [r \in 1..Len(table.rows) |-> table.rows[r][ColIdx(table.columns, c)]]

\* df[mask]: the table with the rows selected, in their order.
WithRows(table, rows) == [columns |-> table.columns, rows |-> rows]

----------------------------------------------------------------------------
(* drop_non_data_rows                                                      *)

\* A slip in the filter: the trimmed string views are written back into
\* the table before the rows are selected.
drop_non_data_rows_writes_back(table, color_col, image_col) ==
    LET ci == ColIdx(table.columns, color_col)
        mi == ColIdx(table.columns, image_col)
        is_header_like(row) ==
            \/ astype_str_strip(row[ci]) \in {DISPLAY_COLOR, MACHINE_COLOR}
            \/ astype_str_strip(row[mi]) \in {DISPLAY_MAIN_IMAGE, MACHINE_MAIN_IMAGE}
        is_doc_row(row) ==
            \/ startswith(astype_str_strip(row[mi]), DOC_PHRASES_IMAGE)
            \/ startswith(astype_str_strip(row[ci]), DOC_PHRASES_COLOR)
        is_blank_row(row) ==
            astype_str_strip(row[ci]) = <<>> /\ astype_str_strip(row[mi]) = <<>>
        kept == WithRows(table, SelectSeq(table.rows, LAMBDA row :
                    ~(is_header_like(row) \/ is_doc_row(row) \/ is_blank_row(row))))
    IN  [columns |-> kept.columns,
         rows |-> [r \in 1..Len(kept.rows) |->
                     [c \in 1..Len(kept.rows[r]) |->
                         IF c \in {ci, mi} THEN astype_str_strip(kept.rows[r][c])
                         ELSE kept.rows[r][c]]]]

drop_non_data_rows(table, color_col, image_col) ==
    LET ci == ColIdx(table.columns, color_col)
        mi == ColIdx(table.columns, image_col)
        \* s_color / s_image of one row
        is_header_like(row) ==
            \/ astype_str_strip(row[ci]) \in {DISPLAY_COLOR, MACHINE_COLOR}
            \/ astype_str_strip(row[mi]) \in {DISPLAY_MAIN_IMAGE, MACHINE_MAIN_IMAGE}
        is_doc_row(row) ==
            \/ startswith(astype_str_strip(row[mi]), DOC_PHRASES_IMAGE)
            \/ startswith(astype_str_strip(row[ci]), DOC_PHRASES_COLOR)
        is_blank_row(row) ==
            astype_str_strip(row[ci]) = <<>> /\ astype_str_strip(row[mi]) = <<>>
    IN  WithRows(table, SelectSeq(table.rows, LAMBDA row :
            ~(is_header_like(row) \/ is_doc_row(row) \/ is_blank_row(row))))

\* The cells a table under the filter is drawn from: data, missing, empty
\* and whitespace-only cells, an echoed header label, a documentation row.
FilterColumns == <<DISPLAY_PRODUCT_NAME, DISPLAY_COLOR, DISPLAY_MAIN_IMAGE>>
FilterProductCells == {<<"P">>}
FilterColorCells ==
    {NaN, <<>>, <<" ">>, <<" ","R">>, MACHINE_COLOR,
     DOC_PHRASES_COLOR \o <<" ","t","o">>}
FilterImageCells ==
    {NaN, <<" "," ">>, <<"u">>, <<" ">> \o DISPLAY_MAIN_IMAGE,
     DOC_PHRASES_IMAGE \o <<".">>}
FilterRows == FilterProductCells \X FilterColorCells \X FilterImageCells

InitFilter ==
    /\ pc = "call"
    /\ \E rows \in SeqsUpTo(FilterRows, MaxFilterRows) :
          df = [columns |-> FilterColumns, rows |-> rows]
    /\ args = [color_col |-> DISPLAY_COLOR, image_col |-> DISPLAY_MAIN_IMAGE]
    /\ ret = <<>>
    /\ fs = NoFiles
    /\ req = NoRequests

\* ret collects the successive results: the filter applied to the table,
\* then applied to its own output.
DropNonDataRows ==
    /\ pc = "call"
    /\ ret' = <<drop_non_data_rows(df, args.color_col, args.image_col)>>
    /\ pc' = "filtered"
    /\ UNCHANGED <<df, args, fs, req>>

DropNonDataRowsAgain ==
    /\ pc = "filtered"
    /\ ret' = Append(ret, drop_non_data_rows(ret[1], args.color_col, args.image_col))
    /\ pc' = "refiltered"
    /\ UNCHANGED <<df, args, fs, req>>

NextFilter == DropNonDataRows \/ DropNonDataRowsAgain

SpecFilter == InitFilter /\ [][NextFilter]_vars

\* C3: the row filter excludes every row whose color cell and main-image
\* cell are both blank in the sense of normalize (missing, empty or
\* whitespace-only).
FullyBlank(table, row) ==
    /\ normalize(row[ColIdx(table.columns, args.color_col)]) = None
    /\ normalize(row[ColIdx(table.columns, args.image_col)]) = None

C3_NoBlankRowSurvives ==
    pc # "call" =>
        \A r \in 1..Len(ret[1].rows) : ~FullyBlank(ret[1], ret[1].rows[r])

\* C4: filtering is idempotent (the filter applied to its own output
\* yields the same rows in the same order), and the rows that pass are rows
\* of the input, unchanged and in their original order.
IsSubSeq(a, b) ==
    \E f \in [1..Len(a) -> 1..Len(b)] :
        /\ \A i, j \in 1..Len(a) : i < j => f[i] < f[j]
        /\ \A i \in 1..Len(a) : a[i] = b[f[i]]

C4_FilterIdempotent ==
    /\ pc # "call" =>
          /\ ret[1].columns = df.columns
          /\ IsSubSeq(ret[1].rows, df.rows)
    /\ pc = "refiltered" => ret[2] = ret[1]

\* A table of two rows of which the filter dropped one and kept a row with
\* padded cells, filtered twice.
C4_Witness ==
    /\ pc = "refiltered"
    /\ Len(df.rows) = 2
    /\ Len(ret[1].rows) = 1
    /\ \E r \in 1..Len(ret[1].rows) : ret[1].rows[r][2] = <<" ","R">>

----------------------------------------------------------------------------
(* get_additional_columns and check                                        *)

get_additional_columns(columns) ==
    LET named == [i \in 1..Len(columns) |-> str(columns[i])]
    IN  SelectSeq(named, LAMBDA c_str :
            \/ startswith(c_str, ADDITIONAL_DISPLAY_PREFIX)
            \/ startswith(c_str, ADDITIONAL_MACHINE_PREFIX))

\* next((v for v in vals if v), None) over the normalized cells of a column
first_non_empty(series) ==
    LET vals  == [i \in 1..Len(series) |-> normalize(series[i])]
        found == SelectSeq(vals, LAMBDA v : v # None /\ v # <<>>)
    IN  IF found = <<>> THEN None ELSE Head(found)

\* A slip in the payload assembly: every category is stored, found or not.
collect_image_data_all_keys(df_pc, cols) ==
    LET main_val          == first_non_empty(Column(df_pc, cols.main))
        additional_cols   == get_additional_columns(df_pc.columns)
        add_vals          == [i \in 1..Len(additional_cols) |->
                                 first_non_empty(Column(df_pc, additional_cols[i]))]
        additional_images == SelectSeq(add_vals, LAMBDA v : v # None)
        swatch_val        == IF cols.swatch # None
                             THEN first_non_empty(Column(df_pc, cols.swatch))
                             ELSE None
    IN  [k \in {"main", "additional", "swatch"} |->
            IF k = "main" THEN main_val
            ELSE IF k = "additional" THEN additional_images
            ELSE swatch_val]

\* The image_data dict built on success: only the keys that were set.
collect_image_data(df_pc, cols) ==
    LET main_val          == first_non_empty(Column(df_pc, cols.main))
        additional_cols   == get_additional_columns(df_pc.columns)
        add_vals          == [i \in 1..Len(additional_cols) |->
                                 first_non_empty(Column(df_pc, additional_cols[i]))]
        additional_images == SelectSeq(add_vals, LAMBDA v : v # None)
        swatch_val        == IF cols.swatch # None
                             THEN first_non_empty(Column(df_pc, cols.swatch))
                             ELSE None
        keys == (IF main_val # None THEN {"main"} ELSE {})
                \cup (IF additional_images # <<>> THEN {"additional"} ELSE {})
                \cup (IF swatch_val # None THEN {"swatch"} ELSE {})
    IN  [k \in keys |-> IF k = "main" THEN main_val
                        ELSE IF k = "additional" THEN additional_images
                        ELSE swatch_val]

EmptyDict == [k \in {} |-> None]

\* A slip in check: the swatch column is judged before the main and
\* additional image columns.
check_swatch_first(table, product_name, color) ==
    LET resolved == resolve_column_names(table.columns)
    IN  IF resolved.exc # "" THEN resolved
        ELSE
        LET cols    == resolved.value
            data    == drop_non_data_rows(table, cols.color, cols.main)
            pi      == ColIdx(data.columns, cols.product)
            ci      == ColIdx(data.columns, cols.color)
            df_prod == WithRows(data, SelectSeq(data.rows, LAMBDA row :
                           astype_str_strip(row[pi]) = strip(product_name)))
            df_pc   == WithRows(df_prod, SelectSeq(df_prod.rows, LAMBDA row :
                           astype_str_strip(row[ci]) = strip(color)))
            cols_to_check == <<cols.main>> \o get_additional_columns(data.columns)
        IN  IF df_prod.rows = <<>>
            THEN Return([result |-> "product not found", image_data |-> EmptyDict])
            ELSE IF df_pc.rows = <<>>
            THEN Return([result |-> "color not there", image_data |-> EmptyDict])
            ELSE IF cols.swatch # None /\ ~column_valid(Column(df_pc, cols.swatch))
            THEN Return([result |-> "swatch is wrong", image_data |-> EmptyDict])
            ELSE IF \E i \in 1..Len(cols_to_check) :
                        ~column_valid(Column(df_pc, cols_to_check[i]))
            THEN Return([result |-> "something is wrong", image_data |-> EmptyDict])
            ELSE Return([result |-> "same",
                         image_data |-> collect_image_data(df_pc, cols)])

check(table, product_name, color) ==
    LET resolved == resolve_column_names(table.columns)
    IN  IF resolved.exc # "" THEN resolved
        ELSE
        LET cols    == resolved.value
            data    == drop_non_data_rows(table, cols.color, cols.main)
            pi      == ColIdx(data.columns, cols.product)
            ci      == ColIdx(data.columns, cols.color)
            df_prod == WithRows(data, SelectSeq(data.rows, LAMBDA row :
                           astype_str_strip(row[pi]) = strip(product_name)))
            df_pc   == WithRows(df_prod, SelectSeq(df_prod.rows, LAMBDA row :
                           astype_str_strip(row[ci]) = strip(color)))
            cols_to_check == <<cols.main>> \o get_additional_columns(data.columns)
        IN  IF df_prod.rows = <<>>
            THEN Return([result |-> "product not found", image_data |-> EmptyDict])
            ELSE IF df_pc.rows = <<>>
            THEN Return([result |-> "color not there", image_data |-> EmptyDict])
            ELSE IF \E i \in 1..Len(cols_to_check) :
                        ~column_valid(Column(df_pc, cols_to_check[i]))
            THEN Return([result |-> "something is wrong", image_data |-> EmptyDict])
            ELSE IF cols.swatch # None /\ ~column_valid(Column(df_pc, cols.swatch))
            THEN Return([result |-> "swatch is wrong", image_data |-> EmptyDict])
            ELSE Return([result |-> "same",
                         image_data |-> collect_image_data(df_pc, cols)])
\* The tables check is run on: a display-label layout with a swatch
\* column and a machine-label layout without one; product and color cells
\* padded or not, image cells missing, equal, different or an echoed header.
CheckColumnsDisplay ==
    <<DISPLAY_PRODUCT_NAME, DISPLAY_COLOR, DISPLAY_MAIN_IMAGE,
      ADDITIONAL_DISPLAY_PREFIX \o <<" ","1">>, DISPLAY_SWATCH>>
CheckColumnsMachine ==
    <<MACHINE_PRODUCT_NAME, MACHINE_COLOR, MACHINE_MAIN_IMAGE,
      ADDITIONAL_MACHINE_PREFIX>>
CheckProductColor ==
    {<< <<"P"," ">>, <<"R">> >>, << <<"P"," ">>, <<"G">> >>, << <<"Q">>, <<"G">> >>}
CheckMainCells   == {NaN, <<"u">>, <<"v">>, MACHINE_MAIN_IMAGE}
CheckAddCells    == {NaN, <<"a">>}
CheckSwatchCells == {NaN, <<"s">>}
CheckRowsDisplay ==
    {<<k[1], k[2], m, a, w>> : k \in CheckProductColor, m \in CheckMainCells,
                               a \in CheckAddCells, w \in CheckSwatchCells}
CheckRowsMachine ==
    {<<k[1], k[2], m, a>> : k \in CheckProductColor, m \in CheckMainCells,
                            a \in CheckAddCells}
CheckTables(n) ==
    {[columns |-> CheckColumnsDisplay, rows |-> rows] :
        rows \in SeqsUpTo(CheckRowsDisplay, n)}
    \cup {[columns |-> CheckColumnsMachine, rows |-> rows] :
        rows \in SeqsUpTo(CheckRowsMachine, n)}
CheckTargets == {[product_name |-> <<" ","P">>, color |-> <<"R"," ">>]}

InitCheck ==
    /\ pc = "call"
    /\ df \in CheckTables(MaxCheckRows)
    /\ args \in CheckTargets
    /\ ret = None
    /\ fs = NoFiles
    /\ req = NoRequests

Check ==
    /\ pc = "call"
    /\ ret' = check(df, args.product_name, args.color)
    /\ pc' = "return"
    /\ UNCHANGED <<df, args, fs, req>>

NextCheck == Check

SpecCheck == InitCheck /\ [][NextCheck]_vars

\* The table under check as the claims describe it: its columns by role,
\* the rows the filter keeps, and among them the group of rows bearing the
\* target product and color.
Roles ==
    [product |-> Resolved(df.columns, DISPLAY_PRODUCT_NAME, MACHINE_PRODUCT_NAME),
     color   |-> Resolved(df.columns, DISPLAY_COLOR, MACHINE_COLOR),
     main    |-> Resolved(df.columns, DISPLAY_MAIN_IMAGE, MACHINE_MAIN_IMAGE),
     swatch  |-> Resolved(df.columns, DISPLAY_SWATCH, MACHINE_SWATCH)]
FilteredRows(roles) == drop_non_data_rows(df, roles.color, roles.main).rows
CellOf(row, c) == row[ColIdx(df.columns, c)]
HasProduct(row, roles) == strip(str(CellOf(row, roles.product))) = strip(args.product_name)
HasColor(row, roles) == strip(str(CellOf(row, roles.color))) = strip(args.color)
GroupRows(filtered, roles) ==
    SelectSeq(filtered, LAMBDA row : HasProduct(row, roles) /\ HasColor(row, roles))
GroupColumn(group, c) == [r \in 1..Len(group) |-> CellOf(group[r], c)]
Invalid(series) == ~(AllBlank(series) \/ (NoneBlank(series) /\ AllEqual(series)))
AdditionalColumns ==
    {c \in Range(df.columns) :
        startswith(c, ADDITIONAL_DISPLAY_PREFIX) \/ startswith(c, ADDITIONAL_MACHINE_PREFIX)}
ImagesInvalid(group, roles) ==
    \/ Invalid(GroupColumn(group, roles.main))
    \/ \E c \in AdditionalColumns : Invalid(GroupColumn(group, c))
SwatchInvalid(group, roles) ==
    roles.swatch # None /\ Invalid(GroupColumn(group, roles.swatch))

\* C2: the verdicts come in a fixed priority: "product not found" whenever
\* no filtered row has the target product (also when the color is absent
\* too), then "color not there", then "something is wrong" whenever the
\* main-image column or an additional-image column is invalid for the group
\* (also when the swatch column is invalid too), then "swatch is wrong", and
\* "same" only when none of these holds.
C2_VerdictPriority ==
    pc = "return" =>
        LET roles    == Roles
            filtered == FilteredRows(roles)
            group    == GroupRows(filtered, roles)
        IN  /\ ret.exc = ""
            /\ ret.value.result =
                  (IF \A r \in 1..Len(filtered) : ~HasProduct(filtered[r], roles)
                       THEN "product not found"
                   ELSE IF group = <<>> THEN "color not there"
                   ELSE IF ImagesInvalid(group, roles) THEN "something is wrong"
                   ELSE IF SwatchInvalid(group, roles) THEN "swatch is wrong"
                   ELSE "same")

\* A group whose additional-image column and whose swatch column are both
\* inconsistent: the image inconsistency is the one reported.
C2_Witness ==
    /\ pc = "return"
    /\ LET group == GroupRows(FilteredRows(Roles), Roles)
       IN  /\ Len(group) = 2
           /\ ImagesInvalid(group, Roles)
           /\ SwatchInvalid(group, Roles)
    /\ ret.value.result = "something is wrong"

\* C5: the image payload is empty with every verdict but "same"; with
\* "same" it holds exactly those of the keys main, additional and swatch
\* whose category has a non-blank value in the group, each with non-blank
\* text (for additional, a non-empty list of non-blank texts).
IsText(v) == v \notin {None, NaN} /\ v # <<>> /\ strip(v) = v
HasValue(group, c) == c # None /\ ~AllBlank(GroupColumn(group, c))

C5_PayloadOnlyOnSame ==
    (pc = "return" /\ ret.exc = "") =>
        LET image_data == ret.value.image_data
            roles      == Roles
            group      == GroupRows(FilteredRows(roles), roles)
        IN  IF ret.value.result # "same" THEN DOMAIN image_data = {}
            ELSE
            /\ DOMAIN image_data \subseteq {"main", "additional", "swatch"}
            /\ "main" \in DOMAIN image_data <=> HasValue(group, roles.main)
            /\ "additional" \in DOMAIN image_data
                  <=> \E c \in AdditionalColumns : HasValue(group, c)
            /\ "swatch" \in DOMAIN image_data <=> HasValue(group, roles.swatch)
            /\ "main" \in DOMAIN image_data => IsText(image_data["main"])
            /\ "swatch" \in DOMAIN image_data => IsText(image_data["swatch"])
            /\ "additional" \in DOMAIN image_data =>
                  /\ image_data["additional"] # <<>>
                  /\ \A i \in 1..Len(image_data["additional"]) :
                        IsText(image_data["additional"][i])

\* A consistent group of two rows with a main image and a swatch but no
\* additional image: the payload holds main and swatch only.
C5_Witness ==
    /\ pc = "return"
    /\ ret.exc = ""
    /\ ret.value.result = "same"
    /\ Len(GroupRows(FilteredRows(Roles), Roles)) = 2
    /\ DOMAIN ret.value.image_data = {"main", "swatch"}

----------------------------------------------------------------------------
(* Loading a sheet: a stored workbook is [sheet, grid, corrupt], the grid  *)
(* being the raw rows of its one sheet.                                    *)

DEFAULT_SHEET ==
    <<"P","r","o","d","u","c","t"," ","C","o","n","t","e","n","t"," ","A","n","d"," ","S","i","t","e"," ","E","x","p">>
TEMP_FOLDER ==
    <<"/","t","m","p">>
UNNAMED ==
    <<"U","n","n","a","m","e","d",":"," ">>

Digits == <<"0","1","2","3","4","5","6","7","8","9">>

\* The column identifiers pandas makes of a header row: a missing cell is
\* named by its position, a repeated label gets a numeric suffix.
header_names(row) ==
    LET base == [c \in 1..Len(row) |->
                    IF row[c] = NaN THEN UNNAMED \o <<Digits[c]>> ELSE row[c]]
        seen(c) == Cardinality({b \in 1..(c - 1) : base[b] = base[c]})
    IN  [c \in 1..Len(row) |->
            IF seen(c) = 0 THEN base[c]
            ELSE base[c] \o <<".", Digits[seen(c) + 1]>>]

\* pd.read_excel(path, ...) up to the raw rows: the workbook at the path
\* is opened and the sheet looked up.  files is the temp folder.
open_sheet(files, path, sheet_name) ==
    IF path \notin DOMAIN files THEN Raise("FileNotFoundError", path)
    ELSE IF files[path].corrupt THEN Raise("BadZipFile", path)
    ELSE IF files[path].sheet # sheet_name THEN Raise("ValueError", sheet_name)
    ELSE Return(files[path].grid)

\* pd.read_excel(..., header=header_row) on the opened rows.
table_with_header(grid, header_row) ==
    [columns |-> header_names(grid[header_row + 1]),
     rows    |-> SubSeq(grid, header_row + 2, Len(grid))]

\* The same when the rows may not be those the header row was located in:
\* with the header row past the last row pandas either raises ValueError
\* or yields a table without columns.
read_with_header(grid, header_row) ==
    IF header_row < Len(grid) THEN {Return(table_with_header(grid, header_row))}
    ELSE {Raise("ValueError", header_row),
          Return([columns |-> <<>>, rows |-> <<>>])}

normalize_columns(table) ==
    [columns |-> [c \in 1..Len(table.columns) |-> strip(str(table.columns[c]))],
     rows    |-> table.rows]

\* load_with_detected_header on a workbook that stays as it is between the
\* two reads.
load_with_detected_header(files, path, sheet_name) ==
    LET opened == open_sheet(files, path, sheet_name)
    IN  IF opened.exc # "" THEN opened
        ELSE LET located == find_header_row_by_labels(opened.value, {DISPLAY_MAIN_IMAGE})
             IN  IF located.exc # "" THEN located
                 ELSE Return(table_with_header(opened.value, located.value))

check_excel(files, path, sheet_name, product_name, color) ==
    IF path \notin DOMAIN files THEN Raise("FileNotFoundError", path)
    ELSE LET loaded == load_with_detected_header(files, path, sheet_name)
         IN  IF loaded.exc # "" THEN loaded
             ELSE check(normalize_columns(loaded.value), product_name, color)

----------------------------------------------------------------------------
(* The upload handler, validation(), in pieces.                            *)

Response(status, body) == [status |-> status, body |-> body]
ErrorBody(text) == [error |-> text]

\* werkzeug's secure_filename on ASCII names: separators become spaces,
\* whitespace runs become "_", other characters are dropped, and leading
\* and trailing dots and underscores are cut.
FilenameChars ==
    {"A","B","C","D","E","F","G","H","I","J","K","L","M","N","O","P","Q",
     "R","S","T","U","V","W","X","Y","Z","a","b","c","d","e","f","g","h",
     "i","j","k","l","m","n","o","p","q","r","s","t","u","v","w","x","y",
     "z","0","1","2","3","4","5","6","7","8","9","_",".","-"}

RECURSIVE join_split(_, _)
join_split(s, i) ==
    IF i > Len(s) THEN <<>>
    ELSE IF s[i] \in Whitespace
         THEN (IF s[i - 1] \in Whitespace THEN <<>> ELSE <<"_">>) \o join_split(s, i + 1)
         ELSE <<s[i]>> \o join_split(s, i + 1)

secure_filename(filename) ==
    LET spaced == [i \in 1..Len(filename) |->
                      IF filename[i] = "/" THEN " " ELSE filename[i]]
        joined == join_split(strip(spaced), 1)
        ascii  == SelectSeq(joined, LAMBDA ch : ch \in FilenameChars)
    IN  strip_chars(ascii, {".", "_"})

\* os.path.join(TEMP_FOLDER, filename)
path_join(folder, filename) == folder \o <<"/">> \o filename

\* The checks made before anything is written (no file, no name, no GTIN).
form_gtin(form) == strip(IF form.gtin = None THEN <<>> ELSE form.gtin)
form_sheet(form) ==
    strip(IF form.sheetName \in {None, <<>>} THEN DEFAULT_SHEET ELSE form.sheetName)

rejected_before_save(form) ==
    ~form.has_file \/ form.filename = <<>> \/ form_gtin(form) = <<>>

reject_before_save(form) ==
    IF ~form.has_file
        THEN Response(400, ErrorBody("No file provided. Please upload an Excel file."))
    ELSE IF form.filename = <<>>
        THEN Response(400, ErrorBody("No file selected. Please choose an Excel file."))
    ELSE Response(400, ErrorBody("Sellable GTIN is required."))

\* A slip in the lookup: the last matching row is taken.
first_match_takes_last(matches) == matches[Len(matches)]

\* matches.iloc[0]
first_match(matches) == matches[1]

\* The lookup of product and color by GTIN on the loaded table: the
\* resolved names, or the response the handler returns at once.
lookup_by_gtin(table, gtin) ==
    LET resolved == resolve_column_names(table.columns)
    IN  IF resolved.exc # "" THEN resolved
        ELSE
        LET cols    == resolved.value
            matches == IF cols.gtin = None THEN <<>>
                       ELSE WithRows(table, SelectSeq(table.rows, LAMBDA row :
                                astype_str_strip(row[ColIdx(table.columns, cols.gtin)])
                                    = gtin)).rows
            first        == first_match(matches)
            product_name == normalize(first[ColIdx(table.columns, cols.product)])
            color        == normalize(first[ColIdx(table.columns, cols.color)])
            stop(status, text) ==
                Return([found |-> FALSE, response |-> Response(status, ErrorBody(text)),
                        product_name |-> None, color |-> None])
        IN  IF cols.gtin = None THEN stop(400, "GTIN column not found in sheet.")
            ELSE IF matches = <<>> THEN stop(404, "GTIN not found in sheet.")
            ELSE IF product_name = None THEN stop(404, "Product name not found in sheet.")
            ELSE IF color = None THEN stop(404, "Color not found in sheet.")
            ELSE Return([found |-> TRUE, response |-> Response(0, ErrorBody("")),
                         product_name |-> product_name, color |-> color])

\* status_map and the body built from the engine's result.
semantic_status(result) ==
    IF result \in {"product not found", "color not there"} THEN 404 ELSE 200

respond(result, image_data, product_name, color) ==
    Response(200,
        [result |-> result, semantic_status |-> semantic_status(result),
         images |-> image_data, product |-> product_name, color |-> color,
         error |-> IF semantic_status(result) # 200 THEN result ELSE None])

\* The except clauses of the handler.
on_exception(raised) ==
    IF raised.exc = "FileNotFoundError"
        THEN Response(400, ErrorBody("Excel file not found"))
    ELSE IF raised.exc = "KeyError"
        THEN Response(400, ErrorBody("Column error"))
    ELSE IF raised.exc = "ValueError"
        THEN Response(400, ErrorBody("Header/sheet error"))
    ELSE Response(500, ErrorBody(
             "Unexpected error while validating the file. Please check inputs and try again."))

\* os.path.exists, file.save and os.remove on the temp folder.
os_path_exists(files, path) == path \in DOMAIN files \/ path = TEMP_FOLDER \o <<"/">>

file_save(files, path, stored) ==
    [q \in DOMAIN files \cup {path} |-> IF q = path THEN stored ELSE files[q]]

\* A slip in the clean-up: the file is left where it is.
os_remove_keeps(files, path) == files

os_remove(files, path) == [q \in DOMAIN files \ {path} |-> files[q]]

----------------------------------------------------------------------------
(* The upload handler as a process: one step per access to the temp        *)
(* folder, so that requests served by several workers interleave there.    *)
(* A request's locals: pc, the form it received, temp_path, header_row,    *)
(* product_name, color, the response; saved tells that it wrote its file.  *)

NewRequest(form) ==
    [pc |-> "start", form |-> form, temp_path |-> None, header_row |-> -1,
     product_name |-> None, color |-> None,
     response |-> Response(0, ErrorBody("")), saved |-> FALSE]

\* A worker that serves no request.
NoForm ==
    [has_file |-> FALSE, filename |-> <<>>, gtin |-> None, sheetName |-> None,
     file |-> [sheet |-> DEFAULT_SHEET, grid |-> <<>>, corrupt |-> FALSE]]
Idle == [NewRequest(NoForm) EXCEPT !.pc = "idle"]

\* What a request stores: its upload, tagged with the request it came from.
Stored(r) ==
    [owner |-> r, sheet |-> req[r].form.file.sheet,
     grid |-> req[r].form.file.grid, corrupt |-> req[r].form.file.corrupt]

\* The request leaves the try block with a response: on to the finally.
Leave(r, response) ==
    req' = [req EXCEPT ![r].response = response, ![r].pc = "finally"]

\* Lines 274-293: the checks on the form, then file.save(temp_path).
Save(r) ==
    /\ req[r].pc = "start"
    /\ LET form      == req[r].form
           filename  == secure_filename(form.filename)
           temp_path == path_join(TEMP_FOLDER, filename)
       IN  IF rejected_before_save(form)
           THEN /\ req' = [req EXCEPT ![r].response = reject_before_save(form),
                                      ![r].pc = "done"]
                /\ fs' = fs
           ELSE IF filename = <<>>
           THEN \* the path is the temp folder itself: file.save raises
                /\ req' = [req EXCEPT ![r].temp_path = temp_path,
                                      ![r].response =
                                          on_exception(Raise("IsADirectoryError", temp_path)),
                                      ![r].pc = "finally"]
                /\ fs' = fs
           ELSE /\ req' = [req EXCEPT ![r].temp_path = temp_path,
                                      ![r].saved = TRUE,
                                      ![r].pc = "locate1"]
                /\ fs' = file_save(fs, temp_path, Stored(r))
    /\ UNCHANGED <<pc, df, args, ret>>

\* find_header_row_by_labels inside load_with_detected_header: the first
\* read of the file (line 53), for the lookup and again for check_excel.
Locate(r) ==
    /\ req[r].pc \in {"locate1", "locate2"}
    /\ LET opened  == open_sheet(fs, req[r].temp_path, form_sheet(req[r].form))
           located == find_header_row_by_labels(opened.value, {DISPLAY_MAIN_IMAGE})
       IN  IF opened.exc # "" THEN Leave(r, on_exception(opened))
           ELSE IF located.exc # "" THEN Leave(r, on_exception(located))
           ELSE req' = [req EXCEPT ![r].header_row = located.value,
                                   ![r].pc = IF req[r].pc = "locate1"
                                             THEN "load1" ELSE "load2"]
    /\ UNCHANGED <<pc, df, args, ret, fs>>

\* The second read of the file (line 74), then what follows it up to the
\* next access to the temp folder: the lookup by GTIN (lines 297-320), or
\* check and the response (lines 260-261, 325-349).
Load(r) ==
    /\ req[r].pc \in {"load1", "load2"}
    /\ LET opened == open_sheet(fs, req[r].temp_path, form_sheet(req[r].form))
       IN  IF opened.exc # "" THEN Leave(r, on_exception(opened))
           ELSE \E read \in read_with_header(opened.value, req[r].header_row) :
                IF read.exc # "" THEN Leave(r, on_exception(read))
                ELSE
                LET table   == normalize_columns(read.value)
                    looked  == lookup_by_gtin(table, form_gtin(req[r].form))
                    checked == check(table, req[r].product_name, req[r].color)
                IN  IF req[r].pc = "load1"
                    THEN IF looked.exc # "" THEN Leave(r, on_exception(looked))
                         ELSE IF ~looked.value.found
                              THEN Leave(r, looked.value.response)
                         ELSE req' = [req EXCEPT
                                        ![r].product_name = looked.value.product_name,
                                        ![r].color = looked.value.color,
                                        ![r].pc = "exists"]
                    ELSE IF checked.exc # "" THEN Leave(r, on_exception(checked))
                         ELSE Leave(r, respond(checked.value.result,
                                               checked.value.image_data,
                                               req[r].product_name, req[r].color))
    /\ UNCHANGED <<pc, df, args, ret, fs>>

\* p.exists() in check_excel (line 247).  Listing the sheets (lines
\* 251-257) reads the file too, but whatever it raises is passed over.
Exists(r) ==
    /\ req[r].pc = "exists"
    /\ IF req[r].temp_path \in DOMAIN fs
       THEN req' = [req EXCEPT ![r].pc = "locate2"]
       ELSE Leave(r, on_exception(Raise("FileNotFoundError", req[r].temp_path)))
    /\ UNCHANGED <<pc, df, args, ret, fs>>

\* finally: os.path.exists(temp_path) (line 369)
FinallyExists(r) ==
    /\ req[r].pc = "finally"
    /\ req' = [req EXCEPT ![r].pc = IF os_path_exists(fs, req[r].temp_path)
                                    THEN "remove" ELSE "done"]
    /\ UNCHANGED <<pc, df, args, ret, fs>>

\* finally: os.remove(temp_path) (line 370); what it raises (the path is
\* gone by now, or is the folder) is passed over (lines 371-372).
Remove(r) ==
    /\ req[r].pc = "remove"
    /\ fs' = IF req[r].temp_path \in DOMAIN fs
             THEN os_remove(fs, req[r].temp_path) ELSE fs
    /\ req' = [req EXCEPT ![r].pc = "done"]
    /\ UNCHANGED <<pc, df, args, ret>>

Requests == 1..NumRequests

NextUpload ==
    \E r \in Requests :
        \/ Save(r)
        \/ Locate(r)
        \/ Load(r)
        \/ Exists(r)
        \/ FinallyExists(r)
        \/ Remove(r)

----------------------------------------------------------------------------
(* One request looking a GTIN up in workbooks of all shapes.               *)

GtinHeader ==
    <<DISPLAY_GTIN \o <<" ">>, DISPLAY_PRODUCT_NAME, DISPLAY_COLOR, DISPLAY_MAIN_IMAGE>>
GtinTitleRow == <<<<"T">>, NaN, NaN, NaN>>
GtinProductColor ==
    {<< <<"P">>, <<"R">> >>, << <<"P">>, <<" ","G">> >>, << NaN, <<"R">> >>,
     << <<"P">>, <<" ">> >>}
GtinRows ==
    {<<g, k[1], k[2], m>> : g \in {<<"1">>, <<"2"," ">>}, k \in GtinProductColor,
                            m \in {<<"u">>, <<"v">>}}
GtinGrids(n) ==
    {top \o <<GtinHeader>> \o rows :
        top \in {<<>>, <<GtinTitleRow>>}, rows \in SeqsUpTo(GtinRows, n)}
GtinForms(n) ==
    {[has_file |-> TRUE, filename |-> <<"a">>, gtin |-> g, sheetName |-> None,
      file |-> [sheet |-> DEFAULT_SHEET, grid |-> grid, corrupt |-> FALSE]] :
        g \in {<<"1">>, <<" ","2">>}, grid \in GtinGrids(n)}

InitGtin ==
    /\ pc = "serve"
    /\ df = <<>>
    /\ args = <<>>
    /\ ret = None
    /\ fs = NoFiles
    /\ \E form \in GtinForms(MaxGtinRows) :
          req = [r \in Requests |-> IF r = 1 THEN NewRequest(form) ELSE Idle]

SpecGtin == InitGtin /\ [][NextUpload]_vars
----------------------------------------------------------------------------
(* Requests served at the same time.  The forms they come with: workbooks  *)
(* that end in each of the handler's responses, under file names of which  *)
(* some are the same once sanitized.                                       *)

Workbook(sheet, grid) == [sheet |-> sheet, grid |-> grid, corrupt |-> FALSE]
Form(filename, gtin, sheetName, file) ==
    [has_file |-> TRUE, filename |-> filename, gtin |-> gtin,
     sheetName |-> sheetName, file |-> file]

SameGrid ==
    <<GtinHeader,
      <<<<"1">>, <<"P">>, <<"R">>, <<"u">>>>,
      <<<<"2">>, <<"P">>, <<"R">>, <<"u">>>>>>
WrongGrid ==
    <<GtinTitleRow, GtinHeader,
      <<<<"1">>, <<"Q">>, <<"R">>, <<"u">>>>,
      <<<<"2">>, <<"Q">>, <<"R">>, NaN>>>>
NoGtinColumnGrid ==
    <<<<DISPLAY_PRODUCT_NAME, DISPLAY_COLOR, DISPLAY_MAIN_IMAGE>>,
      <<<<"P">>, <<"R">>, <<"u">>>>>>
BlankProductGrid ==
    <<GtinHeader, <<<<"1">>, <<" ">>, <<"R">>, <<"u">>>>>>
BlankColorGrid ==
    <<GtinHeader, <<<<"1">>, <<"P">>, NaN, <<"u">>>>>>
NoColorColumnGrid ==
    <<<<DISPLAY_GTIN, DISPLAY_PRODUCT_NAME, DISPLAY_MAIN_IMAGE>>,
      <<<<"1">>, <<"P">>, <<"u">>>>>>
NoHeaderGrid ==
    <<<<<<"1">>, <<"P">>, <<"R">>, <<"u">>>>>>

UploadForms ==
    <<Form(<<"a">>, <<"1">>, None, Workbook(DEFAULT_SHEET, SameGrid)),
      Form(<<".",".","/","a">>, <<" ","1">>, DEFAULT_SHEET,
           Workbook(DEFAULT_SHEET, WrongGrid)),
      Form(<<"a">>, <<"9">>, None, Workbook(DEFAULT_SHEET, SameGrid)),
      Form(<<"b">>, <<"1">>, None, Workbook(DEFAULT_SHEET, NoGtinColumnGrid)),
      Form(<<"b">>, <<"1">>, None, Workbook(DEFAULT_SHEET, BlankProductGrid)),
      Form(<<"b"," ","c">>, <<"1">>, None, Workbook(DEFAULT_SHEET, BlankColorGrid)),
      Form(<<"b","_","c">>, <<"1">>, None, Workbook(DEFAULT_SHEET, NoColorColumnGrid)),
      Form(<<"d">>, <<"1">>, <<"S">>, Workbook(DEFAULT_SHEET, NoHeaderGrid)),
      Form(<<"d">>, <<"1">>, None,
           [sheet |-> DEFAULT_SHEET, grid |-> <<>>, corrupt |-> TRUE]),
      Form(<<".",".">>, <<"1">>, None, Workbook(DEFAULT_SHEET, SameGrid)),
      NoForm>>

\* The workers are interchangeable (a request's number only tags the file
\* it stores), so the requests take their forms in the order of the list.
InitUpload ==
    /\ pc = "serve"
    /\ df = <<>>
    /\ args = <<>>
    /\ ret = None
    /\ fs = NoFiles
    /\ \E form \in [Requests -> 1..Len(UploadForms)] :
          /\ \A r1, r2 \in Requests : r1 < r2 => form[r1] <= form[r2]
          /\ req = [r \in Requests |-> NewRequest(UploadForms[form[r]])]

SpecUpload == InitUpload /\ [][NextUpload]_vars
\* C6: the temp file a request wrote is deleted on every exit path: once
\* the handler has returned (with a verdict, a lookup error, a recognized
\* or an unexpected error), the file it stored no longer exists.
C6_TempFileDeleted ==
    \A r \in Requests :
        (req[r].pc = "done" /\ req[r].saved) =>
            ~(req[r].temp_path \in DOMAIN fs /\ fs[req[r].temp_path].owner = r)

\* Two requests that stored their uploads under the same path have both
\* returned, one with a verdict and one with a lookup error, and the temp
\* folder is empty.
C6_Witness ==
    \E r1, r2 \in Requests :
        /\ r1 # r2
        /\ req[r1].pc = "done" /\ req[r1].saved
        /\ req[r2].pc = "done" /\ req[r2].saved
        /\ req[r1].temp_path = req[r2].temp_path
        /\ "result" \in DOMAIN req[r1].response.body
        /\ req[r2].response.status = 404
        /\ DOMAIN fs = {}

\* C7: concurrent requests are independent: from the moment a request has
\* stored its upload until its engine run is over, the file at its temp
\* path is there and is the one it uploaded (no other request overwrites
\* or deletes it), so that its engine run reads its own file.
InUse(r) == req[r].pc \in {"locate1", "load1", "exists", "locate2", "load2"}

C7_RequestsIndependent ==
    \A r \in Requests :
        InUse(r) =>
            /\ req[r].temp_path \in DOMAIN fs
            /\ fs[req[r].temp_path].owner = r

\* C10: when the GTIN is in the table, the lookup takes the first row in
\* table order whose trimmed GTIN cell equals it and, with that row's
\* normalized product name and color, answers with the verdict and the
\* payload the checker gives when called with these two values.
LoadedTable(form) ==
    normalize_columns(load_with_detected_header(
        file_save(NoFiles, <<"f">>, form.file), <<"f">>, form_sheet(form)).value)
RowsWithGtin(table, gtin) ==
    {i \in 1..Len(table.rows) :
        strip(str(table.rows[i][ColIdx(table.columns, DISPLAY_GTIN)])) = strip(gtin)}

=============================================================================
